---- MODULE Spec2Model ----
(***************************************************************************)
(* Scrolling ascii text for a 5x5 LED matrix                               *)
(* (src/src/graphics/scrolling_text.rs).                                   *)
(*                                                                         *)
(* The module models the two Scrollable implementations of the file,       *)
(* ScrollingStaticText and ScrollingBufferedText, as records, and every    *)
(* method as an operator from the receiver (and arguments) to the updated  *)
(* receiver.  One ScrollingStaticText and one ScrollingBufferedText are    *)
(* driven by the same sequence of set_message / reset / tick calls.        *)
(*                                                                         *)
(* ScrollingState, Animate, Scrollable::current_brightness_at              *)
(* (crate::graphics::scrolling), font::character (crate::graphics::font)   *)
(* and BitImage (crate::graphics::image) are used by the file but defined  *)
(* elsewhere in the crate; they are modelled from the specification.       *)
(***************************************************************************)
EXTENDS Integers, Sequences, FiniteSets

\* ------------------------------------------------------------------------
\* Bounds of the model
\* ------------------------------------------------------------------------

\* longest enumerated short message
MaxLen == 2

\* tick() calls explored after the animation has finished
MaxExtraTicks == 2

\* display refreshes explored between two mutating calls
MaxRenders == 2

\* ------------------------------------------------------------------------
\* Program constants
\* ------------------------------------------------------------------------

\* capacity of ScrollingBufferedText::message, [u8; 128]
BufferCapacity == 128

\* animation steps per symbol (= glyph width in pixels)
STEPS_PER_SYMBOL == 5

\* width and height of the display grid and of a glyph
GridSize == 5

\* brightness of a lit BitImage pixel
MAX_BRIGHTNESS == 9

\* result standing for a panic inside a brightness query
\* (slice index out of bounds in subimage)
PanicValue == 0 - 1

\* message bytes: b'H', b'I'
Bytes == {72, 73}

Coords == 0 .. (GridSize - 1)

RECURSIVE SeqsOfLen(_)
SeqsOfLen(n) ==
    IF n = 0 THEN {<<>>}
    ELSE {Append(s, b) : s \in SeqsOfLen(n - 1), b \in Bytes}

ShortMessages == UNION {SeqsOfLen(n) : n \in 0 .. MaxLen}

\* a message of n bytes, alternating b'I', b'H'
LongMessage(n) == [i \in 1 .. n |-> IF i % 2 = 1 THEN 73 ELSE 72]

\* the arguments set_message is called with: every short message, one that
\* exactly fills the buffer and one that is one byte too long
Messages ==
    ShortMessages \cup {LongMessage(BufferCapacity), LongMessage(BufferCapacity + 1)}

\* ------------------------------------------------------------------------
\* font::character and BitImage
\* ------------------------------------------------------------------------

\* font::character(byte): the glyph of a byte, a GridSize x GridSize bit
\* image; every byte (0 included) has a glyph with a lit pixel in every
\* column, and the bytes 0, b'H' and b'I' have different glyphs
FontCharacter(byte) ==
    [p \in Coords \X Coords |-> ((byte + 2 * p[1] + p[2]) % 5 = 0)]

\* <BitImage as Render>::brightness_at
ImageBrightnessAt(image, x, y) ==
    IF image[<<x, y>>] THEN MAX_BRIGHTNESS ELSE 0

\* ------------------------------------------------------------------------
\* ScrollingState and Animate
\* ------------------------------------------------------------------------

ScrollingStateDefault == [symbol_index |-> 0, sub_step |-> 0]

\* ScrollingState::reset
ScrollingStateReset(state) == [symbol_index |-> 0, sub_step |-> 0]

\* ScrollingState::tick
ScrollingStateTick(state) ==
    IF state.sub_step + 1 = STEPS_PER_SYMBOL
    THEN [symbol_index |-> state.symbol_index + 1, sub_step |-> 0]
    ELSE [state EXCEPT !.sub_step = state.sub_step + 1]

\* Animate::is_finished for a Scrollable of the given length
AnimateIsFinished(length, state) == state.symbol_index = length

\* Animate::tick for a Scrollable of the given length
AnimateTick(length, state) ==
    IF AnimateIsFinished(length, state) THEN state
    ELSE ScrollingStateTick(state)

\* the message position shown at on-screen column x
LogicalPosition(state, x) ==
    IF x + state.sub_step < STEPS_PER_SYMBOL
    THEN state.symbol_index - 1
    ELSE state.symbol_index

\* the column of that position's glyph shown at on-screen column x
GlyphColumn(state, x) ==
    IF x + state.sub_step < STEPS_PER_SYMBOL
    THEN x + state.sub_step
    ELSE x + state.sub_step - STEPS_PER_SYMBOL

\* Scrollable::current_brightness_at; subimage[index] is the implementor's
\* subimage(), which yields [panic |-> TRUE] when the index is out of bounds
CurrentBrightnessAt(length, state, subimage, x, y) ==
    LET index == LogicalPosition(state, x)
    IN  IF index < 0 \/ index >= length THEN 0
        ELSE LET sub == subimage[index]
             IN  IF sub.panic THEN PanicValue
                 ELSE ImageBrightnessAt(sub.image, GlyphColumn(state, x), y)

\* ------------------------------------------------------------------------
\* ScrollingStaticText
\* ------------------------------------------------------------------------

\* #[derive(Default)] struct ScrollingStaticText { message, state }
StaticDefault == [message |-> <<>>, state |-> ScrollingStateDefault]

\* StaticLength counting one symbol too many
StaticLengthOffByOne(self) == Len(self.message) + 1

\* Scrollable::length
StaticLength(self) == Len(self.message)

\* Scrollable::state
StaticState(self) == self.state

\* Scrollable::subimage: font::character(self.message[index])
StaticSubimage(self, index) ==
    IF index >= 0 /\ index < Len(self.message)
    THEN [panic |-> FALSE, image |-> FontCharacter(self.message[index + 1])]
    ELSE [panic |-> TRUE]

\* Animate::is_finished
StaticIsFinished(self) == AnimateIsFinished(StaticLength(self), StaticState(self))

\* Animate::reset, through state_mut()
StaticReset(self) == [self EXCEPT !.state = ScrollingStateReset(self.state)]

\* Animate::tick, through state_mut()
StaticTick(self) ==
    [self EXCEPT !.state = AnimateTick(StaticLength(self), StaticState(self))]

\* StaticSetMessage without the call of reset()
StaticSetMessageNoReset(self, message) == [self EXCEPT !.message = message]

\* ScrollingStaticText::set_message
StaticSetMessage(self, message) ==
    StaticReset([self EXCEPT !.message = message])

\* StaticBrightnessAt passing the coordinates in the wrong order
StaticBrightnessAtSwapped(self, x, y) ==
    CurrentBrightnessAt(StaticLength(self), StaticState(self),
                        [index \in Int |-> StaticSubimage(self, index)], y, x)

\* Render::brightness_at
StaticBrightnessAt(self, x, y) ==
    CurrentBrightnessAt(StaticLength(self), StaticState(self),
                        [index \in Int |-> StaticSubimage(self, index)], x, y)

\* ------------------------------------------------------------------------
\* ScrollingBufferedText
\* ------------------------------------------------------------------------

\* BufferedDefault with length initialised to the size of the buffer
BufferedDefaultFull ==
    [length |-> BufferCapacity,
     message |-> [i \in 1 .. BufferCapacity |-> 0],
     state |-> ScrollingStateDefault]

\* Default for ScrollingBufferedText
BufferedDefault ==
    [length |-> 0,
     message |-> [i \in 1 .. BufferCapacity |-> 0],
     state |-> ScrollingStateDefault]

\* BufferedLength returning the size of the buffer, self.message.len()
BufferedLengthOfBuffer(self) == Len(self.message)

\* Scrollable::length
BufferedLength(self) == self.length

\* Scrollable::state
BufferedState(self) == self.state

\* BufferedSubimage reading the byte after the one asked for
BufferedSubimageOffByOne(self, index) ==
    IF index + 1 >= 0 /\ index + 1 < BufferCapacity
    THEN [panic |-> FALSE, image |-> FontCharacter(self.message[index + 2])]
    ELSE [panic |-> TRUE]

\* Scrollable::subimage: font::character(self.message[index])
BufferedSubimage(self, index) ==
    IF index >= 0 /\ index < BufferCapacity
    THEN [panic |-> FALSE, image |-> FontCharacter(self.message[index + 1])]
    ELSE [panic |-> TRUE]

\* Animate::is_finished
BufferedIsFinished(self) ==
    AnimateIsFinished(BufferedLength(self), BufferedState(self))

\* Animate::reset, through state_mut()
BufferedReset(self) == [self EXCEPT !.state = ScrollingStateReset(self.state)]

\* Animate::tick, through state_mut()
BufferedTick(self) ==
    [self EXCEPT !.state = AnimateTick(BufferedLength(self), BufferedState(self))]

\* BufferedSetMessage without the call of reset()
BufferedSetMessageNoReset(self, message) ==
    IF ~(Len(message) <= BufferCapacity)
    THEN [panicked |-> TRUE, self |-> self]
    ELSE LET s1 == [self EXCEPT !.length = Len(message)]
         IN  [panicked |-> FALSE,
              self |-> [s1 EXCEPT !.message =
                           [i \in 1 .. BufferCapacity |->
                               IF i <= s1.length THEN message[i]
                               ELSE s1.message[i]]]]

\* BufferedSetMessage recording the length without copying the bytes
BufferedSetMessageNoCopy(self, message) ==
    IF ~(Len(message) <= BufferCapacity)
    THEN [panicked |-> TRUE, self |-> self]
    ELSE [panicked |-> FALSE,
          self |-> BufferedReset([self EXCEPT !.length = Len(message)])]

\* BufferedSetMessage calling reset() before the assert
BufferedSetMessageResetFirst(self, message) ==
    LET s0 == BufferedReset(self)
    IN  IF ~(Len(message) <= BufferCapacity)
        THEN [panicked |-> TRUE, self |-> s0]
        ELSE LET s1 == [s0 EXCEPT !.length = Len(message)]
             IN  [panicked |-> FALSE,
                  self |-> [s1 EXCEPT !.message =
                               [i \in 1 .. BufferCapacity |->
                                   IF i <= s1.length THEN message[i]
                                   ELSE s1.message[i]]]]

\* BufferedSetMessage without the assert: the slice panics after length
\* is written
BufferedSetMessageNoAssert(self, message) ==
    LET s1 == [self EXCEPT !.length = Len(message)]
    IN  IF s1.length > BufferCapacity
        THEN [panicked |-> TRUE, self |-> s1]
        ELSE [panicked |-> FALSE,
              self |-> BufferedReset([s1 EXCEPT !.message =
                           [i \in 1 .. BufferCapacity |->
                               IF i <= s1.length THEN message[i]
                               ELSE s1.message[i]]])]

\* BufferedSetMessage asserting message.len() < 128
BufferedSetMessageStrict(self, message) ==
    IF ~(Len(message) < BufferCapacity)
    THEN [panicked |-> TRUE, self |-> self]
    ELSE LET s1 == [self EXCEPT !.length = Len(message)]
         IN  [panicked |-> FALSE,
              self |-> BufferedReset([s1 EXCEPT !.message =
                           [i \in 1 .. BufferCapacity |->
                               IF i <= s1.length THEN message[i]
                               ELSE s1.message[i]]])]

\* ScrollingBufferedText::set_message: the receiver after the call and
\* whether the call panicked.  The assert precedes the writes; the slice
\* self.message[..self.length] panics after length is written when length
\* exceeds the buffer.
BufferedSetMessage(self, message) ==
    IF ~(Len(message) <= BufferCapacity)
    THEN [panicked |-> TRUE, self |-> self]
    ELSE LET s1 == [self EXCEPT !.length = Len(message)]
         IN  IF s1.length > BufferCapacity
             THEN [panicked |-> TRUE, self |-> s1]
             ELSE LET s2 == [s1 EXCEPT !.message =
                                [i \in 1 .. BufferCapacity |->
                                    IF i <= s1.length THEN message[i]
                                    ELSE s1.message[i]]]
                  IN  [panicked |-> FALSE, self |-> BufferedReset(s2)]

\* Render::brightness_at
BufferedBrightnessAt(self, x, y) ==
    CurrentBrightnessAt(BufferedLength(self), BufferedState(self),
                        [index \in Int |-> BufferedSubimage(self, index)], x, y)

\* ------------------------------------------------------------------------
\* State machine
\* ------------------------------------------------------------------------

VARIABLES
    staticText,     \* the ScrollingStaticText
    bufferedText,   \* the ScrollingBufferedText
    panicked,       \* ScrollingBufferedText::set_message has panicked
    origin,         \* the call that last (re)started the animation
    before,         \* the phase of the animation when origin was called
    arg,            \* the argument of the last set_message call
    ticks,          \* tick() calls since origin
    frames,         \* the frames rendered since the last mutating call
    freshText       \* a ScrollingBufferedText created afresh for the last
                    \* set_message call and given the same calls since

vars == <<staticText, bufferedText, panicked, origin, before, arg, ticks, frames,
          freshText>>

\* what the display driver reads in one refresh: brightness_at(x, y) of
\* both scrollers for every coordinate of the grid
RenderFrame(static, buffered) ==
    [static |-> [p \in Coords \X Coords |-> StaticBrightnessAt(static, p[1], p[2])],
     buffered |-> [p \in Coords \X Coords |-> BufferedBrightnessAt(buffered, p[1], p[2])]]

\* the phase of the animation, from the calls made so far
Phase ==
    IF origin = "default" THEN "fresh"
    ELSE IF ticks >= Len(arg) * STEPS_PER_SYMBOL THEN "finished"
    ELSE "running"

Init ==
    /\ staticText = StaticDefault
    /\ bufferedText = BufferedDefault
    /\ panicked = FALSE
    /\ origin = "default"
    /\ before = "fresh"
    /\ arg = <<>>
    /\ ticks = 0
    /\ frames = <<>>
    /\ freshText = BufferedDefault

\* scroller.set_message(message) on both scrollers
SetMessage(message) ==
    /\ ~panicked
    /\ LET r == BufferedSetMessage(bufferedText, message)
       IN  /\ bufferedText' = r.self
           /\ panicked' = r.panicked
    /\ staticText' = StaticSetMessage(staticText, message)
    /\ origin' = "set_message"
    /\ before' = Phase
    /\ arg' = message
    /\ ticks' = 0
    /\ frames' = <<>>
    /\ freshText' = BufferedSetMessage(BufferedDefault, message).self

\* scroller.reset() on both scrollers
Reset ==
    /\ ~panicked
    /\ staticText' = StaticReset(staticText)
    /\ bufferedText' = BufferedReset(bufferedText)
    /\ origin' = "reset"
    /\ before' = Phase
    /\ ticks' = 0
    /\ frames' = <<>>
    /\ freshText' = BufferedReset(freshText)
    /\ UNCHANGED <<panicked, arg>>

\* scroller.tick() on both scrollers
Tick ==
    /\ ~panicked
    /\ ticks < Len(arg) * STEPS_PER_SYMBOL + MaxExtraTicks
    /\ staticText' = StaticTick(staticText)
    /\ bufferedText' = BufferedTick(bufferedText)
    /\ ticks' = ticks + 1
    /\ frames' = <<>>
    /\ freshText' = BufferedTick(freshText)
    /\ UNCHANGED <<panicked, origin, before, arg>>

\* Render that advances the animation while it reads
RenderAdvancing ==
    /\ ~panicked
    /\ Len(frames) < MaxRenders
    /\ frames' = Append(frames, RenderFrame(staticText, bufferedText))
    /\ staticText' = StaticTick(staticText)
    /\ bufferedText' = BufferedTick(bufferedText)
    /\ UNCHANGED <<panicked, origin, before, arg, ticks, freshText>>

\* one display refresh: brightness_at(x, y), through &self, for every
\* coordinate of the grid, on both scrollers
Render ==
    /\ ~panicked
    /\ Len(frames) < MaxRenders
    /\ frames' = Append(frames, RenderFrame(staticText, bufferedText))
    /\ UNCHANGED <<staticText, bufferedText, panicked, origin, before, arg, ticks,
                   freshText>>

Next ==
    \/ \E message \in Messages : SetMessage(message)
    \/ Reset
    \/ Tick
    \/ Render

Spec == Init /\ [][Next]_vars

TypeOK ==
    /\ staticText.message \in Messages
    /\ bufferedText.length \in Nat
    /\ panicked \in BOOLEAN
    /\ origin \in {"default", "set_message", "reset"}
    /\ before \in {"fresh", "running", "finished"}
    /\ arg \in Messages
    /\ ticks \in Nat
    /\ Len(frames) \in 0 .. MaxRenders

\* ------------------------------------------------------------------------
\* Properties
\* ------------------------------------------------------------------------

ZeroState == [symbol_index |-> 0, sub_step |-> 0]

\* ticks needed to scroll through the message last given to set_message
FullRun == Len(arg) * STEPS_PER_SYMBOL

\* a step that is a call of set_message(arg'): the only steps that leave
\* origin = "set_message" with no tick and no frame since
SetMessageStep ==
    /\ origin' = "set_message"
    /\ ticks' = 0
    /\ frames' = <<>>
    /\ ~panicked

\* C1: after n tick() calls from reset() or set_message() on a message of
\* length L, is_finished() is false while n < L * STEPS_PER_SYMBOL and true
\* from n = L * STEPS_PER_SYMBOL on, for both scrollers.
C1_FinishedAfterFullRun ==
    /\ StaticIsFinished(staticText) <=> (ticks >= FullRun)
    /\ ~panicked => (BufferedIsFinished(bufferedText) <=> (ticks >= FullRun))

\* a two-symbol message has just been scrolled to its end
C1_Witness ==
    /\ Len(arg) = 2
    /\ ticks = FullRun
    /\ StaticIsFinished(staticText)
    /\ BufferedIsFinished(bufferedText)

\* C2: after n <= L * STEPS_PER_SYMBOL ticks from a reset state,
\* symbol_index = n div STEPS_PER_SYMBOL and sub_step = n mod
\* STEPS_PER_SYMBOL; a tick increments sub_step, and on reaching
\* STEPS_PER_SYMBOL zeroes it and advances symbol_index by one.
C2_StateAfterTicks ==
    LET expected == [symbol_index |-> ticks \div STEPS_PER_SYMBOL,
                     sub_step |-> ticks % STEPS_PER_SYMBOL]
    IN  (ticks <= FullRun) =>
            /\ StaticState(staticText) = expected
            /\ ~panicked => BufferedState(bufferedText) = expected

\* "HI" after 4 ticks: symbol_index = 0, sub_step = 4
C2_Witness ==
    /\ arg = <<72, 73>>
    /\ ticks = 4
    /\ StaticState(staticText) = [symbol_index |-> 0, sub_step |-> 4]
    /\ BufferedState(bufferedText) = [symbol_index |-> 0, sub_step |-> 4]

\* C3: once a scroller is finished (symbol_index equals the length of its
\* message), tick() leaves symbol_index, sub_step, the message and the
\* length unchanged.
C3_TickNoOpWhenFinished ==
    [][Tick =>
        /\ (staticText.state.symbol_index = Len(staticText.message))
               => staticText' = staticText
        /\ (bufferedText.state.symbol_index = bufferedText.length)
               => bufferedText' = bufferedText]_vars

\* a non-empty message was scrolled to its end and ticked further
C3_Witness ==
    /\ Len(arg) > 0
    /\ ticks = FullRun + MaxExtraTicks
    /\ staticText.state = [symbol_index |-> Len(arg), sub_step |-> 0]
    /\ bufferedText.state = [symbol_index |-> Len(arg), sub_step |-> 0]

\* C4: set_message() with an accepted message, called in any state, leaves
\* symbol_index = 0, sub_step = 0 and length() = the new message's length,
\* on both variants.
C4_SetMessageResets ==
    [][SetMessageStep =>
        /\ StaticState(staticText') = ZeroState
        /\ StaticLength(staticText') = Len(arg')
        /\ ~panicked' =>
               /\ BufferedState(bufferedText') = ZeroState
               /\ BufferedLength(bufferedText') = Len(arg')]_vars

\* set_message() has interrupted a running animation with a shorter message
C4_Witness ==
    /\ origin = "set_message"
    /\ before = "running"
    /\ ticks = 0
    /\ Len(arg) = 1
    /\ bufferedText.message[2] # 0
    /\ StaticState(staticText) = ZeroState
    /\ BufferedState(bufferedText) = ZeroState
    /\ BufferedLength(bufferedText) = 1

\* C5: ScrollingBufferedText::set_message(bytes) panics exactly when
\* bytes.len() > 128; every shorter input, also one of exactly 128 bytes,
\* succeeds with length() = bytes.len().
C5_PanicIffTooLong ==
    /\ panicked <=> (Len(arg) > 128)
    /\ ~panicked => BufferedLength(bufferedText) = Len(arg)

\* a 129-byte message was rejected after a 128-byte message was accepted
C5_Witness ==
    /\ panicked
    /\ Len(arg) = 129
    /\ BufferedLength(bufferedText) = 128

\* C6: reset() called in any state yields symbol_index = 0 and sub_step = 0,
\* leaves the message and the length unchanged, and afterwards is_finished()
\* holds iff the message is empty.
C6_ResetRestarts ==
    [][Reset =>
        /\ StaticState(staticText') = ZeroState
        /\ staticText'.message = staticText.message
        /\ StaticIsFinished(staticText') <=> (Len(staticText.message) = 0)
        /\ BufferedState(bufferedText') = ZeroState
        /\ bufferedText'.message = bufferedText.message
        /\ bufferedText'.length = bufferedText.length
        /\ BufferedIsFinished(bufferedText') <=> (bufferedText.length = 0)]_vars

\* reset() has restarted a finished two-symbol animation
C6_Witness ==
    /\ origin = "reset"
    /\ before = "finished"
    /\ ticks = 0
    /\ Len(arg) = 2
    /\ StaticState(staticText) = ZeroState
    /\ BufferedState(bufferedText) = ZeroState
    /\ ~StaticIsFinished(staticText)
    /\ ~BufferedIsFinished(bufferedText)

\* the invariant of ScrollingState for a scroller of the given length
StateInvariant(length, state) ==
    /\ state.symbol_index \in 0 .. length
    /\ state.sub_step \in 0 .. (STEPS_PER_SYMBOL - 1)
    /\ (state.symbol_index = length) => (state.sub_step = 0)

\* C7: in every state reachable by set_message(), reset() and tick(),
\* symbol_index <= length(), 0 <= sub_step < STEPS_PER_SYMBOL, and
\* symbol_index = length() implies sub_step = 0.
C7_StateInvariant ==
    /\ StateInvariant(StaticLength(staticText), StaticState(staticText))
    /\ StateInvariant(BufferedLength(bufferedText), BufferedState(bufferedText))

\* a message that replaced a running animation has been scrolled to its end
C7_Witness ==
    /\ origin = "set_message"
    /\ before = "running"
    /\ Len(arg) = 2
    /\ staticText.state.symbol_index = StaticLength(staticText)
    /\ bufferedText.state.symbol_index = BufferedLength(bufferedText)
    /\ bufferedText.state.symbol_index = 2

\* C8: is_finished() holds iff symbol_index equals the length of the
\* scroller's current message, whatever sub_step is.
C8_FinishedIffIndexIsLength ==
    /\ StaticIsFinished(staticText)
           <=> (staticText.state.symbol_index = Len(staticText.message))
    /\ ~panicked =>
           (BufferedIsFinished(bufferedText)
                <=> (bufferedText.state.symbol_index = Len(arg)))
    /\ \A sub \in 0 .. (STEPS_PER_SYMBOL - 1) :
           /\ StaticIsFinished([staticText EXCEPT !.state.sub_step = sub])
                  <=> (staticText.state.symbol_index = Len(staticText.message))
           /\ ~panicked =>
                  (BufferedIsFinished([bufferedText EXCEPT !.state.sub_step = sub])
                       <=> (bufferedText.state.symbol_index = Len(arg)))

\* an unfinished scroller in the last step before the end of its message
C8_Witness ==
    /\ Len(arg) = 2
    /\ ticks = FullRun - 1
    /\ staticText.state = [symbol_index |-> 1, sub_step |-> 4]
    /\ ~StaticIsFinished(staticText)
    /\ ~BufferedIsFinished(bufferedText)

\* C9: a freshly created scroller of either variant has length() = 0,
\* symbol_index = 0 and sub_step = 0 and is finished; tick() on it changes
\* nothing and every brightness query returns 0.
C9_FreshScroller ==
    (origin = "default") =>
        /\ StaticLength(staticText) = 0
        /\ StaticState(staticText) = ZeroState
        /\ StaticIsFinished(staticText)
        /\ StaticTick(staticText) = staticText
        /\ BufferedLength(bufferedText) = 0
        /\ BufferedState(bufferedText) = ZeroState
        /\ BufferedIsFinished(bufferedText)
        /\ BufferedTick(bufferedText) = bufferedText
        /\ \A x \in Coords, y \in Coords :
               /\ StaticBrightnessAt(staticText, x, y) = 0
               /\ BufferedBrightnessAt(bufferedText, x, y) = 0

\* fresh scrollers that have been ticked
C9_Witness ==
    /\ origin = "default"
    /\ ticks = MaxExtraTicks
    /\ staticText = StaticDefault
    /\ bufferedText = BufferedDefault

SubimageIndexes(length, state) ==
    {LogicalPosition(state, x) : x \in Coords} \cap (0 .. (length - 1))

\* C12: brightness queries are total: in every reachable state and for
\* every coordinate of the grid brightness_at(x, y) completes, and every
\* index it passes to subimage() is below the length of the message.
C12_BrightnessTotal ==
    /\ \A x \in Coords, y \in Coords :
           /\ StaticBrightnessAt(staticText, x, y) \in {0, MAX_BRIGHTNESS}
           /\ BufferedBrightnessAt(bufferedText, x, y) \in {0, MAX_BRIGHTNESS}
    /\ \A index \in SubimageIndexes(StaticLength(staticText), StaticState(staticText)) :
           /\ index < Len(staticText.message)
           /\ ~StaticSubimage(staticText, index).panic
    /\ \A index \in SubimageIndexes(BufferedLength(bufferedText),
                                    BufferedState(bufferedText)) :
           /\ index < bufferedText.length
           /\ ~BufferedSubimage(bufferedText, index).panic

\* just after a long message was replaced by a one-byte message: the
\* queries in the last step read the only byte and none of the stale ones
C12_Witness ==
    /\ Len(arg) = 1
    /\ bufferedText.message[BufferCapacity] # 0
    /\ bufferedText.state = [symbol_index |-> 0, sub_step |-> 4]
    /\ SubimageIndexes(BufferedLength(bufferedText), BufferedState(bufferedText)) = {0}
    /\ SubimageIndexes(StaticLength(staticText), StaticState(staticText)) = {0}
    /\ \E x \in Coords, y \in Coords :
           BufferedBrightnessAt(bufferedText, x, y) = MAX_BRIGHTNESS

\* C13: the read operations leave message, length, symbol_index and
\* sub_step unchanged, so all brightness queries made between two
\* consecutive mutating calls observe the same state and return the same
\* value for the same (x, y).
C13_ReadsLeaveStateUnchanged ==
    [][(Len(frames') = Len(frames) + 1) =>
        /\ staticText' = staticText
        /\ bufferedText' = bufferedText
        /\ \A i \in 1 .. Len(frames') :
               frames'[i] = RenderFrame(staticText', bufferedText')]_vars

\* two refreshes of a running animation with lit pixels, no call between
C13_Witness ==
    /\ Len(frames) = 2
    /\ frames[1] = frames[2]
    /\ frames[2] = RenderFrame(staticText, bufferedText)
    /\ staticText.state = [symbol_index |-> 1, sub_step |-> 3]
    /\ \E p \in Coords \X Coords : frames[1].buffered[p] = MAX_BRIGHTNESS
    /\ \E p \in Coords \X Coords : frames[1].static[p] = MAX_BRIGHTNESS

\* C14: ScrollingStaticText and ScrollingBufferedText driven by the same
\* set_message (at most 128 bytes), reset and tick calls report the same
\* length(), is_finished(), symbol_index, sub_step, subimage(i) for every
\* i < length(), and brightness_at(x, y) for every coordinate.
C14_VariantsEquivalent ==
    (Len(arg) <= 128) =>
        /\ StaticLength(staticText) = BufferedLength(bufferedText)
        /\ StaticIsFinished(staticText) <=> BufferedIsFinished(bufferedText)
        /\ StaticState(staticText) = BufferedState(bufferedText)
        /\ \A i \in 0 .. (StaticLength(staticText) - 1) :
               StaticSubimage(staticText, i) = BufferedSubimage(bufferedText, i)
        /\ \A x \in Coords, y \in Coords :
               StaticBrightnessAt(staticText, x, y)
                   = BufferedBrightnessAt(bufferedText, x, y)

\* "IH" replaced a longer message and is half scrolled: both glyphs are
\* partly on screen and the buffer still holds bytes of the old message
C14_Witness ==
    /\ arg = <<73, 72>>
    /\ before = "running"
    /\ bufferedText.message[3] # 0
    /\ staticText.message # SubSeq(bufferedText.message, 1, 3)
    /\ staticText.state = [symbol_index |-> 1, sub_step |-> 2]
    /\ bufferedText.state = [symbol_index |-> 1, sub_step |-> 2]
    /\ \E y \in Coords : StaticBrightnessAt(staticText, 0, y) = MAX_BRIGHTNESS
    /\ \E y \in Coords : BufferedBrightnessAt(bufferedText, 4, y) = MAX_BRIGHTNESS

\* C15: after a successful ScrollingBufferedText::set_message(m),
\* length() = len(m) and the stored byte at every i < len(m) is m[i], so
\* subimage(i) is the glyph of m[i]; tick() and reset() never change the
\* stored bytes, only a later set_message does.
C15_BufferHoldsCopy ==
    /\ []((Len(arg) <= 128) =>
             /\ BufferedLength(bufferedText) = Len(arg)
             /\ \A i \in 1 .. Len(arg) :
                    /\ bufferedText.message[i] = arg[i]
                    /\ BufferedSubimage(bufferedText, i - 1)
                           = [panic |-> FALSE, image |-> FontCharacter(arg[i])])
    /\ [][(Tick \/ Reset) =>
              /\ bufferedText'.message = bufferedText.message
              /\ bufferedText'.length = bufferedText.length]_vars

\* "IH" was copied in, scrolled to its end and reset, and ticked again
C15_Witness ==
    /\ arg = <<73, 72>>
    /\ origin = "reset"
    /\ before = "finished"
    /\ ticks = 3
    /\ bufferedText.length = 2
    /\ SubSeq(bufferedText.message, 1, 2) = <<73, 72>>

\* C16: a rejected ScrollingBufferedText::set_message (more than 128
\* bytes) modifies nothing: length, the buffer, symbol_index and sub_step
\* are as before the call.
C16_RejectedCallChangesNothing ==
    [][(SetMessageStep /\ Len(arg') > 128) =>
        /\ panicked'
        /\ bufferedText' = bufferedText]_vars

\* the 129-byte message was rejected in the middle of the animation of
\* "HI": length, buffer and progress are those of "HI"
C16_Witness ==
    /\ panicked
    /\ Len(arg) = 129
    /\ bufferedText.length = 2
    /\ SubSeq(bufferedText.message, 1, 2) = <<72, 73>>
    /\ bufferedText.state = [symbol_index |-> 1, sub_step |-> 3]

\* what can be observed of a ScrollingBufferedText
BufferedObservables(self) ==
    [length |-> BufferedLength(self),
     is_finished |-> BufferedIsFinished(self),
     brightness |-> [p \in Coords \X Coords |->
                        BufferedBrightnessAt(self, p[1], p[2])]]

\* C17: the output of ScrollingBufferedText does not depend on earlier
\* messages: after set_message(m2) and any ticks, length, is_finished and
\* every brightness_at equal those of a fresh scroller given
\* set_message(m2) and the same ticks, although bytes of an earlier longer
\* message stay in the buffer beyond the new length.
C17_HistoryIndependent ==
    (Len(arg) <= 128) =>
        /\ BufferedObservables(bufferedText) = BufferedObservables(freshText)
        /\ \A index \in SubimageIndexes(BufferedLength(bufferedText),
                                        BufferedState(bufferedText)) :
               index < Len(arg)

\* "H" after a 128-byte message, scrolled to its end: the buffer differs
\* from the fresh scroller's in the stale bytes, the observables agree
C17_Witness ==
    /\ arg = <<72>>
    /\ ticks = STEPS_PER_SYMBOL
    /\ bufferedText.message[2] = 72
    /\ bufferedText.message[BufferCapacity] = 72
    /\ freshText.message[2] = 0
    /\ bufferedText.message # freshText.message
    /\ BufferedObservables(bufferedText) = BufferedObservables(freshText)
    /\ \E p \in Coords \X Coords :
           BufferedObservables(bufferedText).brightness[p] = MAX_BRIGHTNESS

\* C18: in every reachable state of ScrollingBufferedText 0 <= length <=
\* 128, so the slice message[..length] and every index below length lie
\* within the 128-byte buffer.
C18_LengthWithinBuffer ==
    /\ bufferedText.length \in 0 .. 128
    /\ Len(bufferedText.message) = 128
    /\ \A index \in 0 .. (bufferedText.length - 1) :
           /\ (index + 1) \in DOMAIN bufferedText.message
           /\ ~BufferedSubimage(bufferedText, index).panic

\* a message that fills the buffer was accepted and scrolled to its end
C18_Witness ==
    /\ ~panicked
    /\ Len(arg) = 128
    /\ bufferedText.length = 128
    /\ bufferedText.state = [symbol_index |-> 128, sub_step |-> 0]
====
